---- MODULE Spec2Model ----
(***************************************************************************)
(* A model of src/main.py: the per-request acquisition pipeline            *)
(* (_extract_and_download, run in a worker thread), the artifact resolver  *)
(* (_pick_final_file), the size admission check (_estimated_too_big) and   *)
(* the request handler (_download_and_send, called by handle_message).     *)
(*                                                                         *)
(* Python dicts are functions whose DOMAIN is the set of keys present.     *)
(* The extraction engine (yt_dlp) and the chat transport are the           *)
(* environment: a probe answers with a metadata dict or raises, a transfer *)
(* writes files or raises, a delivery succeeds or raises.                  *)
(***************************************************************************)
EXTENDS Integers, Sequences, FiniteSets, TLC

(* ------------------------------ settings ------------------------------ *)

MAX_TG_BYTES == 1900000000

QUALITIES == {"360", "480", "720"}

FORMAT_WITH_FFMPEG_720 == "bv*[ext=mp4][height<=720]+ba[ext=m4a]/bv*+ba/b[ext=mp4][height<=720]/b/best"
FORMAT_WITH_FFMPEG_480 == "bv*[ext=mp4][height<=480]+ba[ext=m4a]/bv*+ba/b[ext=mp4][height<=480]/b/best"
FORMAT_WITH_FFMPEG_360 == "bv*[ext=mp4][height<=360]+ba[ext=m4a]/bv*+ba/b[ext=mp4][height<=360]/b/best"

FORMAT_NO_FFMPEG_720 == "best[ext=mp4][height<=720]/best[height<=720]/best"
FORMAT_NO_FFMPEG_480 == "best[ext=mp4][height<=480]/best[height<=480]/best"
FORMAT_NO_FFMPEG_360 == "best[ext=mp4][height<=360]/best[height<=360]/best"

\* The two generic selectors that close the downshift chains.
GENERIC_NO_FFMPEG == "best"
GENERIC_WITH_FFMPEG == "b/best"

(* ------------------------------- bounds ------------------------------- *)

\* Supported URLs in one message.
MaxUrls == 2
\* Files one transfer leaves in the working directory.
MaxFiles == 2

(* ------------------------------ variables ----------------------------- *)

VARIABLES
    NO_FFMPEG,    \* the merge-mode setting, fixed at start-up
    QSTORE,       \* chat id -> stored quality string
    chat,         \* the chat the message came from
    nUrls,        \* number of supported URLs of the message
    urlIdx,       \* index of the URL being processed (0: none yet)
    h_pc,         \* where the handler coroutine is
    cancelled,    \* the handler was cancelled at an await
    tmpdir,       \* the working directory of the current request (0: none)
    nextDir,      \* next fresh directory name of mkdtemp
    fs,           \* existing working directories -> set of files in each
    fmt_pref,     \* _format_for_quality(get_quality(chat)) of the request
    size,         \* st_size of the resolved file as read by the handler (0: not read)
    out,          \* what the chat transport was asked to do, in order, per URL
    t_pc,         \* where the worker thread is
    t_dir,        \* the tmpdir argument of the worker
    engine,       \* the engine's answer to a probe, per ladder rank
    fallbacks,    \* the ladder
    chosen_fmt,   \* the selector chosen for the transfer
    k,            \* rank of the next candidate of the running loop
    probes,       \* ranks probed by this worker, in order (until the transfer)
    transfers,    \* number of extract_info(download=True) calls of this worker
    t_result,     \* how the worker ended
    filepath,     \* the file the worker returned (a set: empty or one file)
    info,         \* input of the admission check under SpecAdmission
    verdict,      \* its result
    dirfiles,     \* input of the resolver under SpecResolver
    picked,       \* its result
    qfile,        \* the quality store file: readable or not, and its content
    text,         \* the text of the message, as a sequence of tokens
    urls,         \* the supported URLs found in it, in order
    q_reply,      \* what quality_cmd last answered
    reqs          \* the handlers of SpecConcurrent, per chat

vars == <<NO_FFMPEG, QSTORE, chat, nUrls, urlIdx, h_pc, cancelled, tmpdir,
          nextDir, fs, fmt_pref, size, out, t_pc, t_dir, engine, fallbacks,
          chosen_fmt, k, probes, transfers, t_result, filepath,
          info, verdict, dirfiles, picked, qfile, text, urls, q_reply, reqs>>

handlerVars == <<chat, nUrls, urlIdx, h_pc, cancelled, tmpdir, nextDir,
                 fmt_pref, size, out>>
workerVars == <<t_pc, t_dir, engine, fallbacks, chosen_fmt, k, probes,
                transfers, t_result, filepath>>
auxVars == <<text, urls, q_reply, reqs>>
pureVars == <<info, verdict, dirfiles, picked, auxVars>>
configVars == <<NO_FFMPEG, QSTORE, qfile>>

(* --------------------------- quality store ---------------------------- *)

\* str(chat_id) of the chats that write to the bot.
Chats == {"1"}

\* What a value of the store file can be: a preset, or anything else.
StoredValues == QUALITIES \cup {"1080"}

EmptyDict == [x \in {} |-> 0]

\* Every dict with keys among keys and values among vals.
Dicts(keys, vals) == UNION {[K -> vals] : K \in SUBSET keys}

get_quality(chat_id) ==
    IF chat_id \in DOMAIN QSTORE /\ QSTORE[chat_id] \in QUALITIES
    THEN QSTORE[chat_id]
    ELSE IF ~NO_FFMPEG THEN "720" ELSE "480"

_format_for_quality(q) ==
    IF NO_FFMPEG
    THEN CASE q = "720" -> FORMAT_NO_FFMPEG_720
           [] q = "480" -> FORMAT_NO_FFMPEG_480
           [] q = "360" -> FORMAT_NO_FFMPEG_360
    ELSE CASE q = "720" -> FORMAT_WITH_FFMPEG_720
           [] q = "480" -> FORMAT_WITH_FFMPEG_480
           [] q = "360" -> FORMAT_WITH_FFMPEG_360

(* ------------------------------- ladder ------------------------------- *)

\* "if f not in fallbacks: fallbacks.append(f)"
AppendIfNew(seq, f) ==
    IF \E i \in DOMAIN seq : seq[i] = f THEN seq ELSE Append(seq, f)

DownshiftChain ==
    IF NO_FFMPEG
    THEN <<FORMAT_NO_FFMPEG_480, FORMAT_NO_FFMPEG_360, GENERIC_NO_FFMPEG>>
    ELSE <<FORMAT_WITH_FFMPEG_480, FORMAT_WITH_FFMPEG_360, GENERIC_WITH_FFMPEG>>

BuildFallbacks(pref) ==
    AppendIfNew(AppendIfNew(AppendIfNew(<<pref>>, DownshiftChain[1]),
                            DownshiftChain[2]),
                DownshiftChain[3])

\* The rank (1 = most preferred) of selector f in ladder seq.
RankOf(seq, f) == CHOOSE i \in DOMAIN seq : seq[i] = f

(* --------------------------- admission check -------------------------- *)

size_keys == <<"filesize", "filesize_approx">>

\* "for f in info['requested_formats']: for k in size_keys: total += int(v)"
RECURSIVE StreamTotal(_)
StreamTotal(streams) ==
    IF streams = <<>> THEN 0
    ELSE LET f == Head(streams)
             a == IF size_keys[1] \in DOMAIN f THEN f[size_keys[1]] ELSE 0
             b == IF size_keys[2] \in DOMAIN f THEN f[size_keys[2]] ELSE 0
         IN  a + b + StreamTotal(Tail(streams))

_estimated_too_big(i) ==
    \/ \E n \in DOMAIN size_keys :
          size_keys[n] \in DOMAIN i /\ i[size_keys[n]] > MAX_TG_BYTES
    \/ /\ "requested_formats" \in DOMAIN i
       /\ LET total == StreamTotal(i["requested_formats"])
          IN  total # 0 /\ total > MAX_TG_BYTES

(* -------------------------- artifact resolver ------------------------- *)

MEDIA_SUFFIXES == {".mp4", ".mov", ".mkv", ".webm"}

\* p.suffix.lower()
Lower(s) ==
    CASE s = ".MP4" -> ".mp4"
      [] s = ".WEBM" -> ".webm"
      [] OTHER -> s

\* The sort key (st_size, st_mtime) of p is at least that of q.
KeyGE(p, q) ==
    \/ p.size > q.size
    \/ p.size = q.size /\ p.mtime >= q.mtime

\* _pick_final_file without the preference of line 164-165 for .mp4 files.
_pick_final_file_NoMp4Preference(files) ==
    LET media == {p \in files : p.is_file /\ Lower(p.suffix) \in MEDIA_SUFFIXES}
    IN  {p \in media : \A q \in media : KeyGE(p, q)}

\* The files _pick_final_file can return for a directory holding files:
\* the empty set is None; files with equal keys keep their glob order, which
\* the code does not control, so each of them is a possible result.
_pick_final_file(files) ==
    LET media == {p \in files : p.is_file /\ Lower(p.suffix) \in MEDIA_SUFFIXES}
        mp4s  == {p \in media : Lower(p.suffix) = ".mp4"}
        pool  == IF mp4s # {} THEN mp4s ELSE media
    IN  {p \in pool : \A q \in pool : KeyGE(p, q)}

(* ----------------------------- environment ---------------------------- *)

\* Metadata dicts the engine answers a probe with in the request model:
\* no estimate at all, a direct estimate under the ceiling, a direct estimate
\* over it.
NoEstimate == EmptyDict
SmallEstimate == [filesize |-> 500000000]
OverEstimate == [filesize_approx |-> 2000000000]

ProbeFailed == [ok |-> FALSE, info |-> EmptyDict]
ProbeOutcomes ==
    {ProbeFailed} \cup
    {[ok |-> TRUE, info |-> i] : i \in {NoEstimate, SmallEstimate, OverEstimate}}

\* Files a transfer can leave in the working directory.
TransferFiles ==
    { [name |-> "clip", suffix |-> ".mp4", size |-> 1000000, mtime |-> 2, is_file |-> TRUE],
      [name |-> "clip-hd", suffix |-> ".mp4", size |-> 2000000000, mtime |-> 2, is_file |-> TRUE],
      [name |-> "clip.f251", suffix |-> ".webm", size |-> 5000000, mtime |-> 1, is_file |-> TRUE],
      [name |-> "clip.mp4", suffix |-> ".part", size |-> 7000000, mtime |-> 1, is_file |-> TRUE] }

TransferOutputs == {W \in SUBSET TransferFiles : Cardinality(W) <= MaxFiles}

PartialOutputs == {W \in TransferOutputs : \A p \in W : p.suffix = ".part"}

CookieFile ==
    [name |-> "cookies", suffix |-> ".txt", size |-> 100, mtime |-> 1, is_file |-> TRUE]

\* Directory d of file system f, created if missing, with files W added.
WriteFiles(f, d, W) ==
    [x \in DOMAIN f \cup {d} |->
        IF x = d THEN (IF d \in DOMAIN f THEN f[d] ELSE {}) \cup W ELSE f[x]]

\* shutil.rmtree(d, ignore_errors=True)
RmTree(f, d) == [x \in DOMAIN f \ {d} |-> f[x]]

(* ------------------------------ messages ------------------------------ *)

\* Strings are sequences of characters where the code looks inside them.
SUPPORTED_DOMAINS ==
    { <<"y", "o", "u", "t", "u", "b", "e", ".", "c", "o", "m">>,
      <<"y", "o", "u", "t", "u", ".", "b", "e">>,
      <<"m", ".", "y", "o", "u", "t", "u", "b", "e", ".", "c", "o", "m">>,
      <<"i", "n", "s", "t", "a", "g", "r", "a", "m", ".", "c", "o", "m">>,
      <<"i", "n", "s", "t", "a", "g", "r", ".", "a", "m">>,
      <<"w", "w", "w", ".", "i", "n", "s", "t", "a", "g", "r", "a", "m", ".", "c", "o", "m">>,
      <<"t", "i", "k", "t", "o", "k", ".", "c", "o", "m">>,
      <<"v", "m", ".", "t", "i", "k", "t", "o", "k", ".", "c", "o", "m">>,
      <<"f", "a", "c", "e", "b", "o", "o", "k", ".", "c", "o", "m">>,
      <<"f", "b", ".", "w", "a", "t", "c", "h">>,
      <<"t", "w", "i", "t", "t", "e", "r", ".", "c", "o", "m">>,
      <<"x", ".", "c", "o", "m">>,
      <<"v", "i", "m", "e", "o", ".", "c", "o", "m">> }

UpperCase == <<"A", "B", "C", "D", "E", "F", "G", "H", "I", "J", "K", "L", "M",
               "N", "O", "P", "Q", "R", "S", "T", "U", "V", "W", "X", "Y", "Z">>
LowerCase == <<"a", "b", "c", "d", "e", "f", "g", "h", "i", "j", "k", "l", "m",
               "n", "o", "p", "q", "r", "s", "t", "u", "v", "w", "x", "y", "z">>

\* str.lower()
LowerStr(s) ==
    [n \in DOMAIN s |->
        IF \E u \in DOMAIN UpperCase : UpperCase[u] = s[n]
        THEN LowerCase[CHOOSE u \in DOMAIN UpperCase : UpperCase[u] = s[n]]
        ELSE s[n]]

\* str.endswith(d)
EndsWith(s, d) ==
    /\ Len(d) <= Len(s)
    /\ SubSeq(s, Len(s) - Len(d) + 1, Len(s)) = d

\* urlparse(url).netloc of "scheme://rest": rest up to the first "/", "?" or "#".
Netloc(rest) ==
    LET stops == {n \in DOMAIN rest : rest[n] \in {"/", "?", "#"}}
    IN  IF stops = {} THEN rest
        ELSE SubSeq(rest, 1, (CHOOSE n \in stops : \A m \in stops : n <= m) - 1)

is_supported_url(rest) ==
    LET host == LowerStr(Netloc(rest))
    IN  \E d \in SUPPORTED_DOMAINS : EndsWith(host, d)

\* URL_RE.findall(text): the tokens of the form http(s)://rest, in order.
RECURSIVE find_urls(_)
find_urls(t) ==
    IF t = <<>> THEN <<>>
    ELSE IF Head(t).is_url
         THEN <<Head(t).rest>> \o find_urls(Tail(t))
         ELSE find_urls(Tail(t))

\* [u for u in find_urls(text) if is_supported_url(u)]
RECURSIVE SupportedOf(_)
SupportedOf(us) ==
    IF us = <<>> THEN <<>>
    ELSE IF is_supported_url(Head(us))
         THEN <<Head(us)>> \o SupportedOf(Tail(us))
         ELSE SupportedOf(Tail(us))

\* A link to a supported site, of a message of the main specification.
PlainLink == <<"y", "o", "u", "t", "u", ".", "b", "e", "/", "v">>

(* -------------------------------- Init -------------------------------- *)

NoReply == [kind |-> "none", chat |-> "", q |-> ""]

AuxIdle ==
    /\ q_reply = NoReply
    /\ reqs = EmptyDict

PureIdle ==
    /\ info = EmptyDict
    /\ verdict = "unchecked"
    /\ dirfiles = {}
    /\ picked = [done |-> FALSE, file |-> {}]
    /\ AuxIdle

WorkerIdle ==
    /\ t_pc = "idle"
    /\ t_dir = 0
    /\ engine = <<>>
    /\ fallbacks = <<>>
    /\ chosen_fmt = ""
    /\ k = 0
    /\ probes = <<>>
    /\ transfers = 0
    /\ t_result = "none"
    /\ filepath = {}

Init ==
    /\ NO_FFMPEG \in BOOLEAN
    /\ QSTORE \in Dicts(Chats, StoredValues)
    /\ qfile = [ok |-> TRUE, data |-> QSTORE]
    /\ chat \in Chats
    /\ nUrls \in 0..MaxUrls
    /\ text = [i \in 1..nUrls |-> [is_url |-> TRUE, rest |-> PlainLink]]
    /\ urls = [i \in 1..nUrls |-> PlainLink]
    /\ urlIdx = 0
    /\ h_pc = "recv"
    /\ cancelled = FALSE
    /\ tmpdir = 0
    /\ nextDir = 1
    /\ fs = EmptyDict
    /\ fmt_pref = ""
    /\ size = 0
    /\ out = <<>>
    /\ WorkerIdle
    /\ PureIdle

(* ------------- worker thread: _extract_and_download -------------------- *)

\* Lines 223-235: the ladder and the initial choice.  The engine's answers
\* to the probes of this request are fixed here, one per ladder rank.
T_Build ==
    /\ t_pc = "start"
    /\ fallbacks' = BuildFallbacks(fmt_pref)
    /\ chosen_fmt' = fallbacks'[1]
    /\ engine' \in [1..Len(fallbacks') -> ProbeOutcomes]
    /\ t_pc' = "probe_first"
    /\ UNCHANGED <<t_dir, k, probes, transfers, t_result, filepath>>
    /\ UNCHANGED <<handlerVars, configVars, pureVars, fs>>

\* T_ProbeFirst without the admission test of line 240: every first probe
\* that succeeds is followed by the downshift loop.
T_ProbeFirst_NoAdmissionTest ==
    /\ t_pc = "probe_first"
    /\ probes' = Append(probes, 1)
    /\ IF ~engine[1].ok
       THEN t_pc' = "except_loop" /\ k' = 2
       ELSE t_pc' = "try_loop" /\ k' = 2
    /\ UNCHANGED <<t_dir, engine, fallbacks, chosen_fmt, transfers, t_result, filepath>>
    /\ UNCHANGED <<handlerVars, configVars, pureVars, fs>>

\* Lines 236-240 and 249: the probe of fallbacks[0].
T_ProbeFirst ==
    /\ t_pc = "probe_first"
    /\ probes' = Append(probes, 1)
    /\ IF ~engine[1].ok
       THEN t_pc' = "except_loop" /\ k' = 2
       ELSE IF _estimated_too_big(engine[1].info)
            THEN t_pc' = "try_loop" /\ k' = 2
            ELSE t_pc' = "transfer" /\ k' = k
    /\ UNCHANGED <<t_dir, engine, fallbacks, chosen_fmt, transfers, t_result, filepath>>
    /\ UNCHANGED <<handlerVars, configVars, pureVars, fs>>

\* Lines 242-248: one iteration of "for f in fallbacks[1:]" inside the try.
\* A probe that raises leaves the loop for the except clause of line 249.
T_TryLoop ==
    /\ t_pc = "try_loop"
    /\ probes' = Append(probes, k)
    /\ IF ~engine[k].ok
       THEN t_pc' = "except_loop" /\ k' = 2 /\ UNCHANGED chosen_fmt
       ELSE IF ~_estimated_too_big(engine[k].info)
            THEN chosen_fmt' = fallbacks[k] /\ t_pc' = "transfer" /\ k' = k
            ELSE /\ UNCHANGED chosen_fmt
                 /\ IF k < Len(fallbacks)
                    THEN t_pc' = "try_loop" /\ k' = k + 1
                    ELSE t_pc' = "transfer" /\ k' = k
    /\ UNCHANGED <<t_dir, engine, fallbacks, transfers, t_result, filepath>>
    /\ UNCHANGED <<handlerVars, configVars, pureVars, fs>>

\* Lines 251-259: one iteration of "for f in fallbacks[1:]" inside the except.
T_ExceptLoop ==
    /\ t_pc = "except_loop"
    /\ probes' = Append(probes, k)
    /\ IF engine[k].ok
       THEN chosen_fmt' = fallbacks[k] /\ t_pc' = "transfer" /\ k' = k
       ELSE /\ UNCHANGED chosen_fmt
            /\ IF k < Len(fallbacks)
               THEN t_pc' = "except_loop" /\ k' = k + 1
               ELSE t_pc' = "transfer" /\ k' = k
    /\ UNCHANGED <<t_dir, engine, fallbacks, transfers, t_result, filepath>>
    /\ UNCHANGED <<handlerVars, configVars, pureVars, fs>>

\* Lines 262-263: the real transfer.  The engine creates the directory of its
\* output template when it is missing (the handler may have removed it).
\* No probe follows, so the probe answers, the loop rank and the probe log are
\* dropped from the state.
T_Transfer ==
    /\ t_pc = "transfer"
    /\ transfers' = transfers + 1
    /\ \/ \E W \in TransferOutputs :
             /\ fs' = WriteFiles(fs, t_dir, W)
             /\ t_pc' = "resolve"
             /\ UNCHANGED t_result
       \/ /\ \/ fs' = fs
             \/ \E W \in PartialOutputs : fs' = WriteFiles(fs, t_dir, W)
          /\ t_pc' = "returned"
          /\ t_result' = "DownloadError"
    /\ engine' = <<>>
    /\ k' = 0
    /\ probes' = <<>>
    /\ UNCHANGED <<t_dir, fallbacks, chosen_fmt, filepath>>
    /\ UNCHANGED <<handlerVars, configVars, pureVars>>

\* T_Resolve starting the transfer again when no artifact is found.
T_Resolve_RetryTransfer ==
    /\ t_pc = "resolve"
    /\ LET files == IF t_dir \in DOMAIN fs THEN fs[t_dir] ELSE {}
           found == _pick_final_file(files)
       IN  IF found = {}
           THEN filepath' = {} /\ t_result' = "none" /\ t_pc' = "transfer"
           ELSE \E p \in found :
                   filepath' = {p} /\ t_result' = "ok" /\ t_pc' = "returned"
    /\ UNCHANGED <<t_dir, engine, fallbacks, chosen_fmt, k, probes, transfers>>
    /\ UNCHANGED <<handlerVars, configVars, pureVars, fs>>

\* Lines 265-268.
T_Resolve ==
    /\ t_pc = "resolve"
    /\ LET files == IF t_dir \in DOMAIN fs THEN fs[t_dir] ELSE {}
           found == _pick_final_file(files)
       IN  IF found = {}
           THEN filepath' = {} /\ t_result' = "RuntimeError"
           ELSE \E p \in found : filepath' = {p} /\ t_result' = "ok"
    /\ t_pc' = "returned"
    /\ UNCHANGED <<t_dir, engine, fallbacks, chosen_fmt, k, probes, transfers>>
    /\ UNCHANGED <<handlerVars, configVars, pureVars, fs>>

(* ------------- handler coroutine: handle_message ----------------------- *)

\* The awaits of _download_and_send at which the coroutine can be cancelled.
RequestAwaits ==
    {"await_status", "await_thread", "await_toolarge", "await_uploading",
     "await_video", "await_document", "await_done", "await_err_dl", "await_err"}

\* The chat transport is asked to do e for the URL being processed.
Emit(e) == out' = Append(out, [url |-> urlIdx, ev |-> e])

\* Lines 310-315: the supported URLs of the message.
HandleMessage ==
    /\ h_pc = "recv"
    /\ IF nUrls = 0
       THEN h_pc' = "await_nourl" /\ UNCHANGED urlIdx
       ELSE h_pc' = "begin" /\ urlIdx' = 1
    /\ UNCHANGED <<chat, nUrls, cancelled, tmpdir, nextDir, fmt_pref, size, out>>
    /\ UNCHANGED <<workerVars, configVars, pureVars, fs>>

\* Line 313.
ReplyNoUrl ==
    /\ h_pc = "await_nourl"
    /\ Emit("PleaseSend")
    /\ h_pc' = "finished"
    /\ UNCHANGED <<chat, nUrls, urlIdx, cancelled, tmpdir, nextDir, fmt_pref, size>>
    /\ UNCHANGED <<workerVars, configVars, pureVars, fs>>

\* Lines 271-281, up to the await of the status message: mkdtemp, the cookie
\* file when the URL and the environment ask for one, the format preference.
BeginRequest ==
    /\ h_pc = "begin"
    /\ tmpdir' = nextDir
    /\ nextDir' = nextDir + 1
    /\ \E cookies \in SUBSET {CookieFile} : fs' = WriteFiles(fs, nextDir, cookies)
    /\ fmt_pref' = _format_for_quality(get_quality(chat))
    /\ size' = 0
    /\ h_pc' = "await_status"
    /\ UNCHANGED <<chat, nUrls, urlIdx, cancelled, out>>
    /\ UNCHANGED <<workerVars, configVars, pureVars>>

\* Lines 281-282: the status message is sent and the worker thread started.
SendStatus ==
    /\ h_pc = "await_status"
    /\ Emit("Downloading")
    /\ h_pc' = "await_thread"
    /\ t_pc' = "start"
    /\ t_dir' = tmpdir
    /\ UNCHANGED <<chat, nUrls, urlIdx, cancelled, tmpdir, nextDir, fmt_pref, size>>
    /\ UNCHANGED <<engine, fallbacks, chosen_fmt, k, probes, transfers, t_result, filepath>>
    /\ UNCHANGED <<configVars, pureVars, fs>>

\* ThreadDone without the size test of line 285.
ThreadDone_NoSizeTest ==
    /\ h_pc = "await_thread"
    /\ t_pc = "returned"
    /\ CASE t_result = "ok" ->
              /\ size' = (CHOOSE p \in filepath : TRUE).size
              /\ h_pc' = "await_uploading"
         [] t_result = "DownloadError" -> h_pc' = "await_err_dl" /\ UNCHANGED size
         [] OTHER -> h_pc' = "await_err" /\ UNCHANGED size
    /\ t_pc' = "idle"
    /\ t_dir' = 0
    /\ engine' = <<>>
    /\ fallbacks' = <<>>
    /\ chosen_fmt' = ""
    /\ k' = 0
    /\ probes' = <<>>
    /\ transfers' = 0
    /\ t_result' = "none"
    /\ filepath' = {}
    /\ UNCHANGED <<chat, nUrls, urlIdx, cancelled, tmpdir, nextDir, fmt_pref, out>>
    /\ UNCHANGED <<configVars, pureVars, fs>>

\* Lines 282-285, 299, 301: the worker's result reaches the handler.
ThreadDone ==
    /\ h_pc = "await_thread"
    /\ t_pc = "returned"
    /\ CASE t_result = "ok" ->
              /\ size' = (CHOOSE p \in filepath : TRUE).size
              /\ h_pc' = IF size' > MAX_TG_BYTES THEN "await_toolarge"
                                                 ELSE "await_uploading"
         [] t_result = "DownloadError" -> h_pc' = "await_err_dl" /\ UNCHANGED size
         [] OTHER -> h_pc' = "await_err" /\ UNCHANGED size
    /\ t_pc' = "idle"
    /\ t_dir' = 0
    /\ engine' = <<>>
    /\ fallbacks' = <<>>
    /\ chosen_fmt' = ""
    /\ k' = 0
    /\ probes' = <<>>
    /\ transfers' = 0
    /\ t_result' = "none"
    /\ filepath' = {}
    /\ UNCHANGED <<chat, nUrls, urlIdx, cancelled, tmpdir, nextDir, fmt_pref, out>>
    /\ UNCHANGED <<configVars, pureVars, fs>>

\* An await of the handler completes: event e is emitted, control goes to pc to.
Step(e, to) ==
    /\ Emit(e)
    /\ h_pc' = to
    /\ UNCHANGED <<chat, nUrls, urlIdx, cancelled, tmpdir, nextDir, fmt_pref, size>>
    /\ UNCHANGED <<workerVars, configVars, pureVars, fs>>

\* Lines 286-290.
ReplyTooLarge ==
    /\ h_pc = "await_toolarge"
    /\ Step("TooLarge", "finally")

\* Line 292.
ReplyUploading ==
    /\ h_pc = "await_uploading"
    /\ Step("Uploading", "await_video")

\* SendVideo removing the working directory when reply_video raises.
SendVideo_CleanupBeforeFallback ==
    /\ h_pc = "await_video"
    /\ \E ok \in BOOLEAN :
          IF ok THEN Step("video_ok", "await_done")
                ELSE /\ Emit("video_failed")
                     /\ h_pc' = "await_document"
                     /\ fs' = RmTree(fs, tmpdir)
                     /\ UNCHANGED <<chat, nUrls, urlIdx, cancelled, tmpdir,
                                    nextDir, fmt_pref, size>>
                     /\ UNCHANGED <<workerVars, configVars, pureVars>>

\* Lines 294-296: reply_video returns or raises.
SendVideo ==
    /\ h_pc = "await_video"
    /\ \E ok \in BOOLEAN :
          IF ok THEN Step("video_ok", "await_done")
                ELSE Step("video_failed", "await_document")

\* SendDocument reporting success whatever reply_document did.
SendDocument_FailureIgnored ==
    /\ h_pc = "await_document"
    /\ \E ok \in BOOLEAN :
          IF ok THEN Step("document_ok", "await_done")
                ELSE Step("document_failed", "await_done")

\* Line 297: reply_document returns or raises (caught at line 301).
SendDocument ==
    /\ h_pc = "await_document"
    /\ \E ok \in BOOLEAN :
          IF ok THEN Step("document_ok", "await_done")
                ELSE Step("document_failed", "await_err")

\* Line 298.
ReplyDone ==
    /\ h_pc = "await_done"
    /\ Step("Done", "finally")

\* ReplyDownloadError falling through to the generic error reply.
ReplyDownloadError_ThenGenericError ==
    /\ h_pc = "await_err_dl"
    /\ Step("DownloadError", "await_err")

\* ReplyDownloadError answering with the text of the generic except clause.
ReplyDownloadError_GenericText ==
    /\ h_pc = "await_err_dl"
    /\ Step("Error", "finally")

\* Lines 299-300.
ReplyDownloadError ==
    /\ h_pc = "await_err_dl"
    /\ Step("DownloadError", "finally")

\* Lines 301-302.
ReplyError ==
    /\ h_pc = "await_err"
    /\ Step("Error", "finally")

\* Finally leaving the loop over the URLs when the request ended in an error.
Finally_StopAfterError ==
    /\ h_pc = "finally"
    /\ fs' = RmTree(fs, tmpdir)
    /\ IF ~cancelled /\ urlIdx < nUrls
          /\ out # <<>> /\ out[Len(out)].ev \notin {"DownloadError", "Error"}
       THEN h_pc' = "begin" /\ urlIdx' = urlIdx + 1
       ELSE h_pc' = "finished" /\ UNCHANGED urlIdx
    /\ UNCHANGED <<chat, nUrls, cancelled, tmpdir, nextDir, fmt_pref, size, out>>
    /\ UNCHANGED <<workerVars, configVars, pureVars>>

\* Lines 303-307, then line 315: the next URL, unless cancelled.
Finally ==
    /\ h_pc = "finally"
    /\ fs' = RmTree(fs, tmpdir)
    /\ IF ~cancelled /\ urlIdx < nUrls
       THEN h_pc' = "begin" /\ urlIdx' = urlIdx + 1
       ELSE h_pc' = "finished" /\ UNCHANGED urlIdx
    /\ UNCHANGED <<chat, nUrls, cancelled, tmpdir, nextDir, fmt_pref, size, out>>
    /\ UNCHANGED <<workerVars, configVars, pureVars>>

\* The surrounding task is cancelled (or times out) while the coroutine is
\* suspended at an await: CancelledError is no Exception, so only the finally
\* clause runs.  A running worker thread is not stopped.
Cancel ==
    /\ ~cancelled
    /\ h_pc \in RequestAwaits \cup {"await_nourl"}
    /\ cancelled' = TRUE
    /\ h_pc' = IF h_pc = "await_nourl" THEN "finished" ELSE "finally"
    /\ UNCHANGED <<chat, nUrls, urlIdx, tmpdir, nextDir, fmt_pref, size, out>>
    /\ UNCHANGED <<workerVars, configVars, pureVars, fs>>

Next ==
    \/ HandleMessage
    \/ ReplyNoUrl
    \/ BeginRequest
    \/ SendStatus
    \/ T_Build
    \/ T_ProbeFirst
    \/ T_TryLoop
    \/ T_ExceptLoop
    \/ T_Transfer
    \/ T_Resolve
    \/ ThreadDone
    \/ ReplyTooLarge
    \/ ReplyUploading
    \/ SendVideo
    \/ SendDocument
    \/ ReplyDone
    \/ ReplyDownloadError
    \/ ReplyError
    \/ Finally
    \/ Cancel

Spec == Init /\ [][Next]_vars

(* --------------------- specifications of the pure parts ---------------- *)

HandlerIdle ==
    /\ NO_FFMPEG = FALSE
    /\ QSTORE = EmptyDict
    /\ qfile = [ok |-> TRUE, data |-> EmptyDict]
    /\ text = <<>>
    /\ urls = <<>>
    /\ chat = "1"
    /\ nUrls = 0
    /\ urlIdx = 0
    /\ h_pc = "recv"
    /\ cancelled = FALSE
    /\ tmpdir = 0
    /\ nextDir = 1
    /\ fs = EmptyDict
    /\ fmt_pref = ""
    /\ size = 0
    /\ out = <<>>

\* Per-stream dicts: an exact size, an approximate size, both or neither.
StreamDicts ==
    {f @@ a : f \in {EmptyDict} \cup {[filesize |-> v] : v \in {0, 950000000, 950000001}},
              a \in {EmptyDict} \cup {[filesize_approx |-> 100000000]}}

\* requested_formats of a merging selector: the video and the audio stream;
\* of other answers: one stream or none.
StreamLists ==
    {<<>>} \cup {<<v>> : v \in StreamDicts} \cup
    {<<v, a>> : v \in StreamDicts, a \in StreamDicts}

DirectSizes == {500000000, MAX_TG_BYTES, MAX_TG_BYTES + 1}

Metadata ==
    {d @@ r : d \in Dicts({"filesize", "filesize_approx"}, DirectSizes),
              r \in {EmptyDict} \cup {[requested_formats |-> l] : l \in StreamLists}}

InitAdmission ==
    /\ HandlerIdle
    /\ WorkerIdle
    /\ info \in Metadata
    /\ verdict = "unchecked"
    /\ dirfiles = {}
    /\ picked = [done |-> FALSE, file |-> {}]
    /\ AuxIdle

\* The admission check is applied to info.
Admit ==
    /\ verdict = "unchecked"
    /\ verdict' = IF _estimated_too_big(info) THEN "reject" ELSE "accept"
    /\ UNCHANGED <<handlerVars, workerVars, configVars, fs, info, dirfiles, picked, auxVars>>

SpecAdmission == InitAdmission /\ [][Admit]_vars

\* Directory entries the resolver is applied to.
ResolverFiles ==
    {[name |-> "clip", suffix |-> x, size |-> s, mtime |-> m, is_file |-> TRUE] :
        x \in {".mp4", ".MP4", ".webm", ".part"}, s \in {1000, 2000}, m \in {1, 2}}
    \cup {[name |-> "dir", suffix |-> ".mp4", size |-> 4096, mtime |-> 2, is_file |-> FALSE]}

InitResolver ==
    /\ HandlerIdle
    /\ WorkerIdle
    /\ info = EmptyDict
    /\ verdict = "unchecked"
    /\ dirfiles \in {W \in SUBSET ResolverFiles : Cardinality(W) <= MaxFiles}
    /\ picked = [done |-> FALSE, file |-> {}]
    /\ AuxIdle

\* The resolver is applied to dirfiles.
Resolve ==
    /\ ~picked.done
    /\ LET found == _pick_final_file(dirfiles)
       IN  IF found = {}
           THEN picked' = [done |-> TRUE, file |-> {}]
           ELSE \E p \in found : picked' = [done |-> TRUE, file |-> {p}]
    /\ UNCHANGED <<handlerVars, workerVars, configVars, fs, info, verdict, dirfiles, auxVars>>

SpecResolver == InitResolver /\ [][Resolve]_vars

(* ------------------------- the selection claims ------------------------ *)

\* The ladder has been walked and the transfer has not begun.
Selected == t_pc = "transfer"

\* Candidate r probes successfully and its estimate passes the admission check.
Admitted(r) == engine[r].ok /\ ~_estimated_too_big(engine[r].info)

LastCandidate == fallbacks[Len(fallbacks)]

\* C1: when the probe of every ladder candidate fails, the candidate chosen
\* for the transfer is the last entry of the ladder.
C1_AllProbesFailedSelectsLast ==
    (Selected /\ \A r \in DOMAIN engine : ~engine[r].ok)
        => chosen_fmt = LastCandidate

\* C2: when no ladder candidate is both probed successfully and admitted,
\* the candidate used for the transfer is the last entry of the ladder.
C2_NoneAdmittedSelectsLast ==
    (Selected /\ \A r \in DOMAIN engine : ~Admitted(r))
        => chosen_fmt = LastCandidate

\* C3: when some candidate probes successfully and is admitted, the chosen
\* candidate is the lowest-rank such candidate.
C3_LowestAdmittedSelected ==
    (Selected /\ \E r \in DOMAIN engine : Admitted(r))
        => /\ Admitted(RankOf(fallbacks, chosen_fmt))
           /\ \A r \in DOMAIN engine :
                 Admitted(r) => RankOf(fallbacks, chosen_fmt) <= r

\* C4: when the first candidate probes successfully and is admitted, it is
\* the chosen candidate and no other candidate was probed before the transfer.
C4_FirstAdmittedNoFurtherProbe ==
    (Selected /\ Admitted(1))
        => chosen_fmt = fallbacks[1] /\ probes = <<1>>

\* C4 witness: scenario A, tier 720 with merging, a 500 MB direct estimate for
\* the first candidate, which is selected after one probe.
C4_Witness ==
    /\ Selected
    /\ ~NO_FFMPEG
    /\ fallbacks[1] = FORMAT_WITH_FFMPEG_720
    /\ engine[1] = [ok |-> TRUE, info |-> SmallEstimate]
    /\ chosen_fmt = FORMAT_WITH_FFMPEG_720
    /\ probes = <<1>>

(* -------------------------- the request claims ------------------------- *)

\* What the chat transport was asked to do for URL i, in order.
RECURSIVE EventsOf(_, _)
EventsOf(log, i) ==
    IF log = <<>> THEN <<>>
    ELSE IF Head(log).url = i
         THEN <<Head(log).ev>> \o EventsOf(Tail(log), i)
         ELSE EventsOf(Tail(log), i)

Has(seq, e) == \E n \in DOMAIN seq : seq[n] = e

IsPrefix(a, b) == Len(a) <= Len(b) /\ SubSeq(b, 1, Len(a)) = a

\* The handler is inside the request of the current URL.
InRequest == h_pc \in RequestAwaits \cup {"finally"}

\* The request of URL i has concluded.
Concluded(i) == i >= 1 /\ (i < urlIdx \/ (i = urlIdx /\ h_pc \in {"begin", "finished"}))

DeliveryEvents == {"video_ok", "video_failed", "document_ok", "document_failed"}

\* C5: a delivery call is made only when the resolved file is within
\* MAX_TG_BYTES; when it is over, the request emits the too-large notice and
\* nothing else after the status message (no delivery, no error, no Done),
\* the notice being emitted whenever the handler is not cancelled, and the
\* working directory with the file is gone once the request has concluded.
C5_OversizeNeverDelivered ==
    /\ h_pc \in {"await_uploading", "await_video", "await_document", "await_done"}
          => size <= MAX_TG_BYTES
    /\ (InRequest /\ \E e \in DeliveryEvents : Has(EventsOf(out, urlIdx), e))
          => (size > 0 /\ size <= MAX_TG_BYTES)
    /\ (urlIdx >= 1 /\ size > MAX_TG_BYTES) =>
          /\ IsPrefix(EventsOf(out, urlIdx), <<"Downloading", "TooLarge">>)
          /\ (h_pc = "finally" /\ ~cancelled)
                => EventsOf(out, urlIdx) = <<"Downloading", "TooLarge">>
          /\ Concluded(urlIdx) => tmpdir \notin DOMAIN fs

\* C5 witness: scenario C, a request that resolved a 2.0 GB file has
\* concluded with the too-large notice and its directory is gone.
C5_Witness ==
    /\ h_pc = "finished"
    /\ ~cancelled
    /\ size = 2000000000
    /\ EventsOf(out, urlIdx) = <<"Downloading", "TooLarge">>
    /\ tmpdir \notin DOMAIN fs

\* C6: once a request has concluded, on whatever exit path (cancellation of
\* the handler included), its working directory does not exist: the only
\* directory that can exist is that of the request in progress.
C6_ConcludedRequestHasNoDirectory ==
    \A d \in DOMAIN fs : InRequest /\ d = tmpdir

\* The three complete delivery histories after the "Uploading" status.
DeliveryHistories ==
    { <<"video_ok", "Done">>,
      <<"video_failed", "document_ok", "Done">>,
      <<"video_failed", "document_failed", "Error">> }

\* The events of URL i from the first delivery attempt on.
DeliveryPart(i) ==
    LET ev == EventsOf(out, i)
    IN  IF Has(ev, "Uploading")
        THEN SubSeq(ev, 1 + (CHOOSE n \in DOMAIN ev : ev[n] = "Uploading"), Len(ev))
        ELSE <<>>

\* C7: rich delivery comes first, generic delivery is attempted once and
\* only after a rich failure, "Error" only after both have failed, "Done"
\* only after one has succeeded; a request that concludes without being
\* cancelled has gone through one of the three complete histories.
C7_DeliveryFallback ==
    \A i \in 1..urlIdx :
        /\ \E h \in DeliveryHistories : IsPrefix(DeliveryPart(i), h)
        /\ \A e \in DeliveryEvents \cup {"Done"} :
              Has(EventsOf(out, i), e) => Has(EventsOf(out, i), "Uploading")
        /\ (Concluded(i) /\ ~cancelled /\ Has(EventsOf(out, i), "Uploading"))
              => DeliveryPart(i) \in DeliveryHistories

\* C7 witness: rich delivery failed, generic delivery succeeded, Done.
C7_Witness ==
    /\ h_pc = "finished"
    /\ ~cancelled
    /\ DeliveryPart(urlIdx) = <<"video_failed", "document_ok", "Done">>

(* --------------------------- the ladder claim -------------------------- *)

\* The height ceiling a selector asks for; the generic selectors have none.
TargetHeight(f) ==
    CASE f \in {FORMAT_WITH_FFMPEG_720, FORMAT_NO_FFMPEG_720} -> 720
      [] f \in {FORMAT_WITH_FFMPEG_480, FORMAT_NO_FFMPEG_480} -> 480
      [] f \in {FORMAT_WITH_FFMPEG_360, FORMAT_NO_FFMPEG_360} -> 360
      [] OTHER -> 0

\* C8: for every tier and merge mode the ladder is non-empty, starts with the
\* tier's selector, has no duplicate selector, is strictly descending in
\* target height over its height-limited entries, and ends with the generic
\* selector of the mode.
C8_LadderWellFormed ==
    fallbacks # <<>> =>
        /\ fallbacks[1] = _format_for_quality(get_quality(chat))
        /\ \A i, j \in DOMAIN fallbacks : i < j => fallbacks[i] # fallbacks[j]
        /\ \A i, j \in 1..(Len(fallbacks) - 1) :
              i < j => TargetHeight(fallbacks[i]) > TargetHeight(fallbacks[j])
        /\ LastCandidate = IF NO_FFMPEG THEN GENERIC_NO_FFMPEG ELSE GENERIC_WITH_FFMPEG

(* ------------------------- the admission claim ------------------------- *)

\* The size estimate of one stream: the exact size when given, else the
\* approximate one, else nothing.
StreamEstimate(f) ==
    IF "filesize" \in DOMAIN f THEN f["filesize"]
    ELSE IF "filesize_approx" \in DOMAIN f THEN f["filesize_approx"]
    ELSE 0

RECURSIVE SumOfStreams(_)
SumOfStreams(streams) ==
    IF streams = <<>> THEN 0
    ELSE StreamEstimate(Head(streams)) + SumOfStreams(Tail(streams))

\* The admission rule: reject iff a direct estimate is over the ceiling or
\* the sum of the streams' estimates, each stream counted once, is positive
\* and over the ceiling.
RuleRejects(i) ==
    \/ \E key \in {"filesize", "filesize_approx"} :
          key \in DOMAIN i /\ i[key] > MAX_TG_BYTES
    \/ /\ "requested_formats" \in DOMAIN i
       /\ SumOfStreams(i["requested_formats"]) > 0
       /\ SumOfStreams(i["requested_formats"]) > MAX_TG_BYTES

\* C9: _estimated_too_big rejects exactly the metadata the admission rule
\* rejects.
C9_AdmissionRule ==
    verdict # "unchecked" => (verdict = "reject" <=> RuleRejects(info))

(* -------------------------- the resolver claim ------------------------- *)

IsMedia(p) == p.is_file /\ Lower(p.suffix) \in MEDIA_SUFFIXES

IsMp4(p) == IsMedia(p) /\ Lower(p.suffix) = ".mp4"

\* C10: the resolver returns nothing iff the directory holds no media file;
\* when an .mp4 exists the result is an .mp4 whatever the other files' sizes;
\* within the preferred pool (the .mp4 files when there are any, else all
\* media files) no file is larger than the result, and none of equal size
\* is more recently modified.
C10_ResolverChoice ==
    picked.done =>
        /\ (picked.file = {}) <=> ~(\E p \in dirfiles : IsMedia(p))
        /\ \A r \in picked.file :
              /\ r \in dirfiles /\ IsMedia(r)
              /\ (\E p \in dirfiles : IsMp4(p)) => IsMp4(r)
              /\ \A q \in dirfiles :
                    (IsMedia(q) /\ (IsMp4(q) \/ ~IsMp4(r))) =>
                        \/ q.size < r.size
                        \/ q.size = r.size /\ q.mtime <= r.mtime

\* C10 witness: a directory with a .webm larger than its .mp4, the .mp4 picked.
C10_Witness ==
    /\ picked.done
    /\ \E w \in dirfiles, m \in dirfiles :
          /\ w.suffix = ".webm" /\ m.suffix = ".mp4"
          /\ w.is_file /\ m.is_file
          /\ w.size > m.size
          /\ picked.file = {m}

(* ------------------------ the termination claim ------------------------ *)

WorkerRunning == t_pc \in {"start", "probe_first", "try_loop", "except_loop",
                           "transfer", "resolve"}

WorkerNext ==
    T_Build \/ T_ProbeFirst \/ T_TryLoop \/ T_ExceptLoop \/ T_Transfer \/ T_Resolve

\* The worker is before, respectively after, its transfer, and it can always
\* take its next step until it has returned.
TransferExactlyOnce ==
    /\ t_pc \in {"start", "probe_first", "try_loop", "except_loop", "transfer"}
          => transfers = 0
    /\ t_pc \in {"resolve", "returned"} => transfers = 1
    /\ WorkerRunning => ENABLED WorkerNext

ErrorEvents == {"DownloadError", "Error"}

WorkerErrors == {"DownloadError", "RuntimeError"}

CountOf(seq, S) == Cardinality({n \in DOMAIN seq : seq[n] \in S})

\* Where errors can come from and what the histories with an error look like.
PropagationState ==
    /\ t_pc \in {"start", "probe_first", "try_loop", "except_loop", "transfer"}
          => t_result = "none"
    /\ t_result \in WorkerErrors => transfers = 1
    /\ h_pc = "await_err_dl" => EventsOf(out, urlIdx) = <<"Downloading">>
    /\ \A i \in 1..urlIdx :
          LET ev == EventsOf(out, i)
          IN  /\ CountOf(ev, ErrorEvents) <= 1
              /\ Has(ev, "DownloadError") => ev = <<"Downloading", "DownloadError">>
              /\ (Has(ev, "Error") /\ ~Has(ev, "Uploading"))
                    => ev = <<"Downloading", "Error">>

\* What the handler does with the worker's result, and with the error.
PropagationStep ==
    /\ (h_pc = "await_thread" /\ t_pc = "returned" /\ h_pc' # h_pc)
          => \/ cancelled' /\ h_pc' = "finally" /\ out' = out
             \/ /\ out' = out
                /\ t_result \in WorkerErrors <=> h_pc' \in {"await_err_dl", "await_err"}
                /\ t_result = "ok" <=> h_pc' \in {"await_toolarge", "await_uploading"}
    /\ (h_pc \in {"await_err_dl", "await_err"} /\ h_pc' # h_pc
            /\ EventsOf(out, urlIdx) = <<"Downloading">>)
          => /\ h_pc' = "finally"
             /\ \/ cancelled' /\ out' = out
                \/ EventsOf(out', urlIdx) \in {<<"Downloading", "DownloadError">>,
                                               <<"Downloading", "Error">>}

\* C12: the worker has no error result while it probes, whatever the probes
\* did; an error result exists only after the one transfer; the handler
\* answers it, unless cancelled, with exactly one error message and ends the
\* request: the history of such a request is the status message followed by
\* that one message, with no upload notice, no delivery call and no Done.
C12_ErrorPropagation == [](PropagationState) /\ [][PropagationStep]_vars

\* C12 witness: a request ended by the missing-artifact error alone.
C12_Witness ==
    /\ ~cancelled
    /\ h_pc = "finally"
    /\ EventsOf(out, urlIdx) = <<"Downloading", "Error">>

(* ------------------------- the probe order claim ---------------------- *)

\* Probe n was made by the first probe or the loop of the try clause and
\* its candidate was rejected there as too big: every probe up to it
\* succeeded with an estimate over the limit.
RejectedAt(n) ==
    \A m \in 1..n :
        /\ probes[m] = m
        /\ engine[m].ok
        /\ _estimated_too_big(engine[m].info)

InHandoff == h_pc \in {"await_uploading", "await_video", "await_document", "await_done"}

\* The working directory of the current request exists and the file the
\* resolver picks in it is the one whose size the handler read.
ArtifactPresent ==
    /\ tmpdir \in DOMAIN fs
    /\ \E p \in _pick_final_file(fs[tmpdir]) : p.size = size

\* C15: during the whole delivery handoff the working directory and the
\* resolved file exist, and the directory of the current request is deleted
\* only by the finally clause, that is after the last delivery call has
\* returned or raised.
C15_DirectoryOutlivesHandoff ==
    /\ [](InHandoff => ArtifactPresent)
    /\ [][(tmpdir \in DOMAIN fs /\ tmpdir \notin DOMAIN fs')
              => (h_pc = "finally" /\ ~InHandoff')]_vars

\* C15 witness: the generic delivery is being tried after the rich one
\* failed, and the file is still there.
C15_Witness ==
    /\ h_pc = "await_document"
    /\ Has(EventsOf(out, urlIdx), "video_failed")
    /\ ArtifactPresent

(* ------------------------ the error kinds claim ----------------------- *)

\* The worker ended with NoArtifact: the transfer raised nothing and the
\* resolver found no file.
NoArtifact ==
    /\ t_pc = "returned"
    /\ t_result = "RuntimeError"

\* The worker ended with TransferFailed: the transfer raised.
TransferFailed ==
    /\ t_pc = "returned"
    /\ t_result = "DownloadError"

\* C16: a missing artifact is a worker result different from a transfer
\* error, the handler takes the generic except clause for the first and the
\* DownloadError clause for the second, and each clause emits its own kind
\* of message: "Error" for NoArtifact, "DownloadError" for TransferFailed.
C16_NoArtifactDistinctFromTransferFailed ==
    /\ [](/\ NoArtifact => (transfers = 1 /\ filepath = {})
          /\ ~(NoArtifact /\ TransferFailed))
    /\ [][/\ (h_pc = "await_thread" /\ h_pc' \notin {"await_thread", "finally"})
                => /\ NoArtifact => h_pc' = "await_err"
                   /\ TransferFailed => h_pc' = "await_err_dl"
          /\ (h_pc = "await_err" /\ out' # out)
                => out' = Append(out, [url |-> urlIdx, ev |-> "Error"])
          /\ (h_pc = "await_err_dl" /\ out' # out)
                => out' = Append(out, [url |-> urlIdx, ev |-> "DownloadError"])
         ]_vars

\* C16 witness: one message whose first URL ended with NoArtifact and whose
\* second URL ended with TransferFailed, reported as two different kinds.
C16_Witness ==
    /\ EventsOf(out, 1) = <<"Downloading", "Error">>
    /\ EventsOf(out, 2) = <<"Downloading", "DownloadError">>

(* ----------------------- the worker lifetime claim -------------------- *)

\* C18: while a probe or the transfer of a request is still to be executed
\* by its worker, the working directory of that request exists: no worker
\* outlives the deletion of its directory, so nothing can be written into
\* it (or re-create it) after the cleanup.
C18_NoWorkerOutlivesDirectory ==
    WorkerRunning => t_dir \in DOMAIN fs

(* ------------------------- the several URLs claim --------------------- *)

\* The last event of a request that ran to its end.
FinalEvents == {"TooLarge", "Done", "DownloadError", "Error"}

\* The request of URL i ran from its status message to one of its ends.
Complete(i) ==
    LET ev == EventsOf(out, i)
    IN  /\ Len(ev) >= 2
        /\ ev[1] = "Downloading"
        /\ ev[Len(ev)] \in FinalEvents
        /\ \A n \in 1..(Len(ev) - 1) : ev[n] \notin FinalEvents

\* C19: the URLs of a message are processed in message order and one at a
\* time (the log never goes back to an earlier URL, and a URL starts only
\* when the previous one has run to its end), whatever the end of a URL was
\* the handler that is not cancelled processes every URL of the message, and
\* at most one working directory exists at any moment.
C19_UrlsInOrderAllProcessed ==
    /\ \A m, n \in DOMAIN out : m < n => out[m].url <= out[n].url
    /\ \A i \in 1..urlIdx : (i < urlIdx /\ ~cancelled) => Complete(i)
    /\ (h_pc = "finished" /\ ~cancelled /\ nUrls > 0)
          => (urlIdx = nUrls /\ \A i \in 1..nUrls : Complete(i))
    /\ Cardinality(DOMAIN fs) <= 1

\* C19 witness: the first URL ended with a transfer error and the second
\* one was delivered.
C19_Witness ==
    /\ h_pc = "finished"
    /\ ~cancelled
    /\ EventsOf(out, 1) = <<"Downloading", "DownloadError">>
    /\ Has(EventsOf(out, 2), "Done")

(* ------------------- specification of message parsing ------------------ *)

\* The tokens of a message: a word, and links by what follows "https://".
Tokens ==
    { [is_url |-> FALSE, rest |-> <<"h", "i">>],
      [is_url |-> TRUE, rest |-> PlainLink],
      [is_url |-> TRUE, rest |-> <<"W", "w", "w", ".", "X", ".", "c", "o", "m", "/", "a">>],
      [is_url |-> TRUE, rest |-> <<"f", "a", "k", "e", "x", ".", "c", "o", "m", "/", "a">>],
      [is_url |-> TRUE, rest |-> <<"e", "x", "a", "m", "p", "l", "e", ".", "o", "r", "g", "/", "x", ".", "c", "o", "m">>] }

\* Messages of at most MaxUrls tokens.
Messages == UNION {[1..n -> Tokens] : n \in 0..MaxUrls}

InitMessage ==
    /\ NO_FFMPEG = FALSE
    /\ QSTORE = EmptyDict
    /\ qfile = [ok |-> TRUE, data |-> EmptyDict]
    /\ chat = "1"
    /\ text \in Messages
    /\ urls = <<>>
    /\ nUrls = 0
    /\ urlIdx = 0
    /\ h_pc = "parse"
    /\ cancelled = FALSE
    /\ tmpdir = 0
    /\ nextDir = 1
    /\ fs = EmptyDict
    /\ fmt_pref = ""
    /\ size = 0
    /\ out = <<>>
    /\ WorkerIdle
    /\ PureIdle

\* Lines 310-311.
ParseMessage ==
    /\ h_pc = "parse"
    /\ urls' = SupportedOf(find_urls(text))
    /\ nUrls' = Len(urls')
    /\ h_pc' = "recv"
    /\ UNCHANGED <<chat, urlIdx, cancelled, tmpdir, nextDir, fmt_pref, size, out>>
    /\ UNCHANGED <<workerVars, configVars, fs, info, verdict, dirfiles, picked,
                   text, q_reply, reqs>>

NextMessage == ParseMessage \/ Next

SpecMessage == InitMessage /\ [][NextMessage]_vars

(* ----------------------- the unsupported source claim ------------------ *)

\* The host of a link, case folded.
HostOf(rest) == LowerStr(Netloc(rest))

\* h is one of SUPPORTED_DOMAINS or a subdomain of one.
IsDomainOrSubdomain(h) ==
    \E d \in SUPPORTED_DOMAINS : h = d \/ EndsWith(h, <<".">> \o d)

\* The message has a link to a supported host.
HasSupportedLink ==
    \E n \in DOMAIN text : text[n].is_url /\ IsDomainOrSubdomain(HostOf(text[n].rest))

\* C17: a working directory is created, and a worker started, only for a
\* URL whose host is one of SUPPORTED_DOMAINS or a subdomain of one; the
\* handler of a message with no such URL ends after exactly one
\* "please send a supported video link" reply, with no directory made.
C17_NoAcquisitionForUnsupportedHost ==
    /\ (tmpdir # 0 \/ t_pc # "idle")
          => IsDomainOrSubdomain(HostOf(urls[urlIdx]))
    /\ ~HasSupportedLink
          => /\ nextDir = 1
             /\ t_pc = "idle"
             /\ (h_pc = "finished" /\ ~cancelled)
                    => out = <<[url |-> 0, ev |-> "PleaseSend"]>>

(* ------------------ specification of the quality command --------------- *)

\* The chats that send /quality.
QualityChats == {"1", "2"}

\* context.args: no argument, or a first argument (Telegram splits the
\* arguments at white space, so strip() finds nothing to remove).
ArgLists ==
    { <<>>,
      <<<<"3", "6", "0">>>>,
      <<<<"4", "8", "0", "p">>>>,
      <<<<"7", "2", "0", "P">>>>,
      <<<<"1", "0", "8", "0">>>> }

\* s.replace("p", "")
RECURSIVE RemoveP(_)
RemoveP(s) ==
    IF s = <<>> THEN <<>>
    ELSE IF Head(s) = "p" THEN RemoveP(Tail(s))
         ELSE <<Head(s)>> \o RemoveP(Tail(s))

\* The string a sequence of characters spells: a preset, or something else.
Spelled(s) ==
    CASE s = <<"3", "6", "0">> -> "360"
      [] s = <<"4", "8", "0">> -> "480"
      [] s = <<"7", "2", "0">> -> "720"
      [] OTHER -> "other"

\* Lines 65-69: the content of the file, or {} when it cannot be read.
_load_qstore(f) == IF f.ok THEN f.data ELSE EmptyDict

\* Lines 71-75: the file after a write of store, which may fail part-way or
\* not happen at all.
_save_qstore(store) ==
    { [ok |-> TRUE, data |-> store], qfile, [ok |-> FALSE, data |-> EmptyDict] }

\* Lines 87-91.
set_quality(chat_id, q) ==
    IF q \notin QUALITIES
    THEN UNCHANGED <<QSTORE, qfile>>
    ELSE /\ QSTORE' = (chat_id :> q) @@ QSTORE
         /\ qfile' \in _save_qstore(QSTORE')

InitQuality ==
    /\ NO_FFMPEG \in BOOLEAN
    /\ qfile = [ok |-> FALSE, data |-> EmptyDict]
    /\ QSTORE = _load_qstore(qfile)
    /\ chat \in QualityChats
    /\ text = <<>>
    /\ urls = <<>>
    /\ nUrls = 0
    /\ urlIdx = 0
    /\ h_pc = "recv"
    /\ cancelled = FALSE
    /\ tmpdir = 0
    /\ nextDir = 1
    /\ fs = EmptyDict
    /\ fmt_pref = ""
    /\ size = 0
    /\ out = <<>>
    /\ WorkerIdle
    /\ PureIdle

\* Lines 124-145: /quality with arguments a, sent from chat c.
quality_cmd ==
    \E c \in QualityChats, a \in ArgLists :
        /\ chat' = c
        /\ IF a = <<>>
           THEN /\ q_reply' = [kind |-> "current", chat |-> c, q |-> get_quality(c)]
                /\ UNCHANGED <<QSTORE, qfile>>
           ELSE LET choice == Spelled(RemoveP(LowerStr(a[1])))
                IN  IF choice \notin QUALITIES
                    THEN /\ q_reply' = [kind |-> "choose", chat |-> c, q |-> ""]
                         /\ UNCHANGED <<QSTORE, qfile>>
                    ELSE IF choice = "720" /\ NO_FFMPEG
                    THEN /\ q_reply' = [kind |-> "refused", chat |-> c, q |-> ""]
                         /\ UNCHANGED <<QSTORE, qfile>>
                    ELSE /\ set_quality(c, choice)
                         /\ q_reply' = [kind |-> "saved", chat |-> c, q |-> choice]
        /\ UNCHANGED <<nUrls, urlIdx, h_pc, cancelled, tmpdir, nextDir, fmt_pref,
                       size, out, NO_FFMPEG>>
        /\ UNCHANGED <<workerVars, fs, info, verdict, dirfiles, picked, text,
                       urls, reqs>>

\* Lines 20 and 77: the process is started again, in either mode, and loads
\* the store file.
Restart ==
    /\ NO_FFMPEG' \in BOOLEAN
    /\ QSTORE' = _load_qstore(qfile)
    /\ q_reply' = NoReply
    /\ UNCHANGED <<handlerVars, workerVars, fs, info, verdict, dirfiles, picked,
                   qfile, text, urls, reqs>>

NextQuality == quality_cmd \/ Restart

SpecQuality == InitQuality /\ [][NextQuality]_vars

(* --------------------------- the quality claim ------------------------- *)

\* The first candidate of the ladder of a request of chat c.
FirstCandidate(c) == BuildFallbacks(_format_for_quality(get_quality(c)))[1]

\* C20: in single-file mode get_quality returns "720" for no chat and no
\* ladder starts with a 720 selector; a /quality command that is refused,
\* invalid or without argument leaves the store as it was, and an accepted
\* one changes the entry of the issuing chat only.
C20_SingleFileModeNever720 ==
    /\ [](NO_FFMPEG =>
            \A c \in QualityChats :
                /\ get_quality(c) # "720"
                /\ FirstCandidate(c) \notin {FORMAT_NO_FFMPEG_720, FORMAT_WITH_FFMPEG_720})
    /\ [][/\ q_reply'.kind \in {"current", "choose", "refused"} => QSTORE' = QSTORE
          /\ q_reply'.kind = "saved" =>
                /\ DOMAIN QSTORE' = DOMAIN QSTORE \cup {q_reply'.chat}
                /\ \A c \in DOMAIN QSTORE \ {q_reply'.chat} : QSTORE'[c] = QSTORE[c]
         ]_vars

(* ----------------- specification of concurrent handlers ---------------- *)

\* The chats whose messages are being handled at the same time.
HandlerChats == {"1", "2"}

\* The files the transfer of URL i of chat c can leave behind.
OwnFiles(c, i) ==
    { [name |-> "clip", suffix |-> ".mp4", size |-> IF c = "1" THEN 1000000 ELSE 2000000,
       mtime |-> 1, is_file |-> TRUE, owner |-> <<c, i>>],
      [name |-> "clip.f251", suffix |-> ".webm", size |-> 5000000,
       mtime |-> 1, is_file |-> TRUE, owner |-> <<c, i>>] }

\* The working directory of the current request of chat c.
DirOf(c) == reqs[c].dirs[Len(reqs[c].dirs)]

otherVars == <<NO_FFMPEG, QSTORE, qfile, chat, nUrls, urlIdx, h_pc, cancelled,
               tmpdir, fmt_pref, size, out, workerVars, info, verdict, dirfiles,
               picked, text, urls, q_reply>>

InitConcurrent ==
    /\ HandlerIdle
    /\ WorkerIdle
    /\ info = EmptyDict
    /\ verdict = "unchecked"
    /\ dirfiles = {}
    /\ picked = [done |-> FALSE, file |-> {}]
    /\ q_reply = NoReply
    /\ \E n \in [HandlerChats -> 1..MaxUrls] :
          reqs = [c \in HandlerChats |->
                    [pc |-> "begin", url |-> 1, n |-> n[c], dirs |-> <<>>, got |-> {}]]

\* tempfile.mkdtemp with a name used before, whatever exists.
Conc_Begin_FixedDirectory(c) ==
    /\ reqs[c].pc = "begin"
    /\ reqs' = [reqs EXCEPT ![c].pc = "transfer", ![c].dirs = Append(@, 1),
                            ![c].got = {}]
    /\ fs' = WriteFiles(fs, 1, {})
    /\ nextDir' = nextDir + 1
    /\ UNCHANGED otherVars

\* Line 272: tempfile.mkdtemp makes a directory that did not exist.
Conc_Begin(c) ==
    /\ reqs[c].pc = "begin"
    /\ reqs' = [reqs EXCEPT ![c].pc = "transfer", ![c].dirs = Append(@, nextDir),
                            ![c].got = {}]
    /\ fs' = WriteFiles(fs, nextDir, {})
    /\ nextDir' = nextDir + 1
    /\ UNCHANGED otherVars

\* Lines 262-263, in the worker thread of the request: the transfer writes
\* into the request's directory, or raises.
Conc_Transfer(c) ==
    /\ reqs[c].pc = "transfer"
    /\ \/ \E W \in SUBSET OwnFiles(c, reqs[c].url) :
             /\ fs' = WriteFiles(fs, DirOf(c), W)
             /\ reqs' = [reqs EXCEPT ![c].pc = "resolve"]
       \/ /\ reqs' = [reqs EXCEPT ![c].pc = "finally"]
          /\ UNCHANGED fs
    /\ UNCHANGED <<nextDir, otherVars>>

\* Lines 265-268: the resolver on the request's directory.
Conc_Resolve(c) ==
    /\ reqs[c].pc = "resolve"
    /\ LET found == _pick_final_file(fs[DirOf(c)])
       IN  IF found = {}
           THEN reqs' = [reqs EXCEPT ![c].pc = "finally"]
           ELSE \E p \in found : reqs' = [reqs EXCEPT ![c].pc = "deliver", ![c].got = {p}]
    /\ UNCHANGED <<fs, nextDir, otherVars>>

\* Lines 284-302: size test and delivery, however they end.
Conc_Deliver(c) ==
    /\ reqs[c].pc = "deliver"
    /\ reqs' = [reqs EXCEPT ![c].pc = "finally"]
    /\ UNCHANGED <<fs, nextDir, otherVars>>

\* Lines 303-307, then line 315.
Conc_Finally(c) ==
    /\ reqs[c].pc = "finally"
    /\ fs' = RmTree(fs, DirOf(c))
    /\ IF reqs[c].url < reqs[c].n
       THEN reqs' = [reqs EXCEPT ![c].pc = "begin", ![c].url = @ + 1, ![c].got = {}]
       ELSE reqs' = [reqs EXCEPT ![c].pc = "finished", ![c].got = {}]
    /\ UNCHANGED <<nextDir, otherVars>>

NextConcurrent ==
    \E c \in HandlerChats :
        \/ Conc_Begin(c)
        \/ Conc_Transfer(c)
        \/ Conc_Resolve(c)
        \/ Conc_Deliver(c)
        \/ Conc_Finally(c)

SpecConcurrent == InitConcurrent /\ [][NextConcurrent]_vars

(* ----------------------- the working directory claim ------------------- *)

\* The requests begun so far: chat and URL index.
Begun == {<<c, i>> : c \in HandlerChats, i \in 1..MaxUrls} \cap
         {r \in HandlerChats \X (1..MaxUrls) : r[2] <= Len(reqs[r[1]].dirs)}

\* The request of chat c is between mkdtemp and rmtree.
Live(c) == reqs[c].pc \in {"transfer", "resolve", "deliver", "finally"}

\* C13: no two requests, of different chats or of one message, were given
\* the same working directory; every file in the directory of a live
\* request was written by that request's own transfer; the resolved
\* artifact is one of them, and there is at most one per request.
C13_WorkingDirectoryNeverShared ==
    /\ \A r1, r2 \in Begun :
          r1 # r2 => reqs[r1[1]].dirs[r1[2]] # reqs[r2[1]].dirs[r2[2]]
    /\ \A c \in HandlerChats :
          /\ Live(c) =>
                /\ DirOf(c) \in DOMAIN fs
                /\ \A p \in fs[DirOf(c)] : p.owner = <<c, reqs[c].url>>
          /\ Cardinality(reqs[c].got) <= 1
          /\ \A p \in reqs[c].got : p.owner = <<c, reqs[c].url>>
          /\ reqs[c].pc = "deliver" => reqs[c].got \subseteq fs[DirOf(c)]

\* C13 witness: two chats hold a resolved artifact at the same time, one of
\* them for the second URL of its message.
C13_Witness ==
    /\ reqs["1"].pc = "deliver"
    /\ reqs["2"].pc = "deliver"
    /\ reqs["1"].url = 2
    /\ reqs["1"].got # {}
    /\ reqs["2"].got # {}

====
